---- MODULE Spec2Model ----
(***************************************************************************)
(* ACL operations of the minio-go client (api-get-acl.go, api-set-acl.go): *)
(* the canned-ACL classification, the per-permission grant headers, the    *)
(* XML shape of the ACL document, and the five request handlers.           *)
(*                                                                         *)
(* The handlers keep no state between calls, so a behaviour is one call:   *)
(* the initial state is "no call made yet", an action is one whole call    *)
(* with its inputs and the collaborators' outcomes drawn with \E, and the  *)
(* state after it records what the call did and returned.                  *)
(***************************************************************************)
EXTENDS Integers, Sequences, FiniteSets, TLC

VARIABLES
    pc,          \* "idle" before the call, "done" once it has returned
    aCPolicy,    \* SpecCanned: the decoded policy handed to the classifiers
    cannedACL,   \* SpecCanned: what getCannedACL returned
    grantACL,    \* SpecGrant: what getAmzGrantACL returned
    acle,        \* SpecXml: the AccessControlPolicyEncode given to PutObjectAcl
    aclstring,   \* SpecXml: the XML document xml.Marshal made of it
    res,         \* SpecXml, Spec: the AccessControlPolicyDecode decoded from the body
    call,        \* Spec: the operation called and its arguments
    requests,    \* Spec: the requests the call issued, in order
    resp,        \* Spec: the response executeMethod returned, Nil when none
    objInfo,     \* Spec: the ObjectInfo StatObject returned, Nil when none
    ret          \* Spec: what the call returned: [value, err]

pureVars == <<aCPolicy, cannedACL, grantACL, acle, aclstring>>
opVars == <<call, requests, resp, objInfo, ret>>
vars == <<pc, aCPolicy, cannedACL, grantACL, acle, aclstring, res, call, requests, resp, objInfo, ret>>

None == "<none>"

\* ------------------------------------------------------------------------
\* Bounds of the model
\* ------------------------------------------------------------------------
MaxGrants == 3
MaxGrantList == 3
MaxXmlGrants == 2
MaxFields == 2
MaxOpGrants == 2
MaxChunks == 2

\* ------------------------------------------------------------------------
\* Program constants
\* ------------------------------------------------------------------------
AuthenticatedUsersURI == "http://acs.amazonaws.com/groups/global/AuthenticatedUsers"
AllUsersURI == "http://acs.amazonaws.com/groups/global/AllUsers"

Permissions == {"READ", "WRITE", "READ_ACP", "WRITE_ACP", "FULL_CONTROL"}

\* ------------------------------------------------------------------------
\* Data shapes (GranteeDecode, GrantDecode, AccessControlPolicyDecode)
\* ------------------------------------------------------------------------
GranteeDecode(id, uri) ==
    [XMLNS |-> "", XMLXSI |-> "", Type |-> "", ID |-> id,
     DisplayName |-> "", URI |-> uri, Email |-> ""]

GrantDecode(grantee, permission) ==
    [Grantee |-> grantee, Permission |-> permission]

AccessControlPolicyDecode(owner, grants) ==
    [Owner |-> owner, AccessControlList |-> [Grants |-> grants]]

\* ------------------------------------------------------------------------
\* getCannedACL
\* ------------------------------------------------------------------------
\* Mutant of TwoGrantCase: the AllUsers test reads WRITE, as the three-grant
\* case does.
TwoGrantCase_AllUsersWrite(g, ownerID) ==
    IF g.Grantee.URI = AuthenticatedUsersURI /\ g.Permission = "READ"
    THEN "authenticated-read"
    ELSE IF g.Grantee.URI = AllUsersURI /\ g.Permission = "WRITE"
    THEN "public-read"
    ELSE IF g.Permission = "READ" /\ g.Grantee.ID = ownerID
    THEN "bucket-owner-read"
    ELSE ""

\* Mutant of TwoGrantCase: the owner rule compares the grantee's display name
\* instead of its ID.
TwoGrantCase_OwnerByName(g, ownerID) ==
    IF g.Grantee.URI = AuthenticatedUsersURI /\ g.Permission = "READ"
    THEN "authenticated-read"
    ELSE IF g.Grantee.URI = AllUsersURI /\ g.Permission = "READ"
    THEN "public-read"
    ELSE IF g.Permission = "READ" /\ g.Grantee.DisplayName = ownerID
    THEN "bucket-owner-read"
    ELSE ""

\* One iteration of the two-grant loop: the label the grant g returns, or ""
\* when the loop goes on to the next grant.
TwoGrantCase(g, ownerID) ==
    IF g.Grantee.URI = AuthenticatedUsersURI /\ g.Permission = "READ"
    THEN "authenticated-read"
    ELSE IF g.Grantee.URI = AllUsersURI /\ g.Permission = "READ"
    THEN "public-read"
    ELSE IF g.Permission = "READ" /\ g.Grantee.ID = ownerID
    THEN "bucket-owner-read"
    ELSE ""

\* One iteration of the three-grant loop.
ThreeGrantCase(g) ==
    IF g.Grantee.URI = AllUsersURI /\ g.Permission = "WRITE"
    THEN "public-read-write"
    ELSE ""

\* Mutant of TwoGrantLoop: each rule is tried on all the grants before the
\* next rule is.
TwoGrantLoop_RuleByRule(grants, i, ownerID) ==
    IF \E j \in i..Len(grants) :
          grants[j].Grantee.URI = AuthenticatedUsersURI /\ grants[j].Permission = "READ"
    THEN "authenticated-read"
    ELSE IF \E j \in i..Len(grants) :
          grants[j].Grantee.URI = AllUsersURI /\ grants[j].Permission = "READ"
    THEN "public-read"
    ELSE IF \E j \in i..Len(grants) :
          grants[j].Permission = "READ" /\ grants[j].Grantee.ID = ownerID
    THEN "bucket-owner-read"
    ELSE ""

\* for _, g := range grants { ... return on the first grant that matches }
RECURSIVE TwoGrantLoop(_, _, _)
TwoGrantLoop(grants, i, ownerID) ==
    IF i > Len(grants) THEN ""
    ELSE IF TwoGrantCase(grants[i], ownerID) # ""
         THEN TwoGrantCase(grants[i], ownerID)
         ELSE TwoGrantLoop(grants, i + 1, ownerID)

RECURSIVE ThreeGrantLoop(_, _)
ThreeGrantLoop(grants, i) ==
    IF i > Len(grants) THEN ""
    ELSE IF ThreeGrantCase(grants[i]) # ""
         THEN ThreeGrantCase(grants[i])
         ELSE ThreeGrantLoop(grants, i + 1)

getCannedACL(policy) ==
    LET grants == policy.AccessControlList.Grants IN
    IF Len(grants) = 1
    THEN IF grants[1].Grantee.URI = "" /\ grants[1].Permission = "FULL_CONTROL"
         THEN "private" ELSE ""
    ELSE IF Len(grants) = 2
    THEN TwoGrantLoop(grants, 1, policy.Owner.ID)
    ELSE IF Len(grants) = 3
    THEN ThreeGrantLoop(grants, 1)
    ELSE ""

\* ------------------------------------------------------------------------
\* getAmzGrantACL
\* ------------------------------------------------------------------------
\* Mutant of AppendValue: the new entry goes to the front of the list.
AppendValue_Prepend(m, k, v) ==
    IF k \in DOMAIN m
    THEN [m EXCEPT ![k] = <<v>> \o @]
    ELSE m @@ (k :> <<v>>)

\* res[k] = append(res[k], v) on the Go map res (here m): a missing key reads as nil.
AppendValue(m, k, v) ==
    IF k \in DOMAIN m
    THEN [m EXCEPT ![k] = Append(@, v)]
    ELSE m @@ (k :> <<v>>)

\* The switch of the loop body: the header a permission selects, None when
\* no case matches.
GrantHeader(permission) ==
    IF permission = "READ" THEN "X-Amz-Grant-Read"
    ELSE IF permission = "WRITE" THEN "X-Amz-Grant-Write"
    ELSE IF permission = "READ_ACP" THEN "X-Amz-Grant-Read-Acp"
    ELSE IF permission = "WRITE_ACP" THEN "X-Amz-Grant-Write-Acp"
    ELSE IF permission = "FULL_CONTROL" THEN "X-Amz-Grant-Full-Control"
    ELSE None

RECURSIVE GrantLoop(_, _, _)
GrantLoop(grants, i, m) ==
    IF i > Len(grants) THEN m
    ELSE LET g == grants[i]
             k == GrantHeader(g.Permission)
         IN  GrantLoop(grants, i + 1,
                 IF k = None THEN m
                 ELSE AppendValue(m, k, "id=" \o g.Grantee.ID))

EmptyMap == [k \in {} |-> <<>>]

getAmzGrantACL(policy) ==
    GrantLoop(policy.AccessControlList.Grants, 1, EmptyMap)

\* ------------------------------------------------------------------------
\* SpecCanned: getCannedACL applied to every bounded policy
\* ------------------------------------------------------------------------
OwnerInput == [ID |-> "o", DisplayName |-> "owner"]
GranteeIDs == {"o", "u"}
GranteeURIs == {"", AllUsersURI, AuthenticatedUsersURI}

\* The permissions getCannedACL tests; WRITE matches no rule of the one- and
\* two-grant cases and READ none of the three-grant case.
CannedPermissions == {"READ", "WRITE", "FULL_CONTROL"}

CannedGrantInputs ==
    {GrantDecode(GranteeDecode(id, uri), p) :
        id \in GranteeIDs, uri \in GranteeURIs, p \in CannedPermissions}

InitCanned ==
    /\ pc = "idle"
    /\ aCPolicy = None
    /\ cannedACL = None
    /\ grantACL = None
    /\ acle = None
    /\ aclstring = None
    /\ res = None
    /\ call = None
    /\ requests = <<>>
    /\ resp = None
    /\ objInfo = None
    /\ ret = None

\* cannedACL := getCannedACL(res)
Classify ==
    /\ pc = "idle"
    /\ \E n \in 0..MaxGrants : \E grants \in [1..n -> CannedGrantInputs] :
        LET policy == AccessControlPolicyDecode(OwnerInput, grants) IN
        /\ aCPolicy' = policy
        /\ cannedACL' = getCannedACL(policy)
    /\ pc' = "done"
    /\ UNCHANGED <<grantACL, acle, aclstring, res, opVars>>

NextCanned == Classify

SpecCanned == InitCanned /\ [][NextCanned]_vars

\* ------------------------------------------------------------------------
\* SpecGrant: getAmzGrantACL applied to every bounded policy
\* ------------------------------------------------------------------------
\* getAmzGrantACL reads the grantee ID and the permission only; the AllUsers
\* grantee lets the three-grant rule of getCannedACL fire as well.
HeaderGranteeInputs ==
    {GranteeDecode("o", ""), GranteeDecode("u", ""), GranteeDecode("", AllUsersURI)}

PermissionInputs == Permissions \cup {"OTHER"}

HeaderGrantInputs ==
    {GrantDecode(grantee, p) : grantee \in HeaderGranteeInputs, p \in PermissionInputs}

\* cannedACL := getCannedACL(res); grantACL := getAmzGrantACL(res)
DeriveHeaders ==
    /\ pc = "idle"
    /\ \E n \in 0..MaxGrantList : \E grants \in [1..n -> HeaderGrantInputs] :
        LET policy == AccessControlPolicyDecode(OwnerInput, grants) IN
        /\ aCPolicy' = policy
        /\ cannedACL' = getCannedACL(policy)
        /\ grantACL' = getAmzGrantACL(policy)
    /\ pc' = "done"
    /\ UNCHANGED <<acle, aclstring, res, opVars>>

NextGrant == DeriveHeaders

SpecGrant == InitCanned /\ [][NextGrant]_vars

\* ------------------------------------------------------------------------
\* The XML form of the ACL document
\* ------------------------------------------------------------------------
\* In SpecXml a Go string is the sequence of its runes (code points), and an
\* XML document is the tree of its elements: an element has a name, a list of
\* attributes, character data and child elements. Character data and
\* attribute values are held as written on the wire: a sequence of tokens,
\* each a literal character [Char |-> r] or a reference [Ref |-> "&lt;"].
Element(name, attr, text, children) ==
    [Name |-> name, Attr |-> attr, Text |-> text, Children |-> children]

\* encoding/xml isInCharacterRange: the characters an XML document may hold.
IsInCharacterRange(r) ==
    \/ r = 9 \/ r = 10 \/ r = 13
    \/ (r >= 32 /\ r <= 55295)
    \/ (r >= 57344 /\ r <= 65533)
    \/ (r >= 65536 /\ r <= 1114111)

\* encoding/xml EscapeString, one rune: the five markup characters and the
\* three white-space controls become references, a rune outside the XML
\* character range becomes U+FFFD.
EscapeRune(r) ==
    IF r = 34 THEN [Ref |-> "&#34;"]
    ELSE IF r = 39 THEN [Ref |-> "&#39;"]
    ELSE IF r = 38 THEN [Ref |-> "&amp;"]
    ELSE IF r = 60 THEN [Ref |-> "&lt;"]
    ELSE IF r = 62 THEN [Ref |-> "&gt;"]
    ELSE IF r = 9 THEN [Ref |-> "&#x9;"]
    ELSE IF r = 10 THEN [Ref |-> "&#xA;"]
    ELSE IF r = 13 THEN [Ref |-> "&#xD;"]
    ELSE IF ~IsInCharacterRange(r) THEN [Char |-> 65533]
    ELSE [Char |-> r]

EscapeString(str) == [i \in 1..Len(str) |-> EscapeRune(str[i])]

\* The decoder's reading of one token of character data.
UnescapeToken(t) ==
    IF "Char" \in DOMAIN t THEN t.Char
    ELSE IF t.Ref = "&#34;" THEN 34
    ELSE IF t.Ref = "&#39;" THEN 39
    ELSE IF t.Ref = "&amp;" THEN 38
    ELSE IF t.Ref = "&lt;" THEN 60
    ELSE IF t.Ref = "&gt;" THEN 62
    ELSE IF t.Ref = "&#x9;" THEN 9
    ELSE IF t.Ref = "&#xA;" THEN 10
    ELSE 13

UnescapeString(text) == [i \in 1..Len(text) |-> UnescapeToken(text[i])]

\* A field tagged `xml:"Name"`: always written.
TextElement(name, str) == <<Element(name, <<>>, EscapeString(str), <<>>)>>

\* A field tagged `xml:"Name,omitempty"`: left out when empty.
OmitEmptyElement(name, str) ==
    IF str = <<>> THEN <<>> ELSE TextElement(name, str)

\* A field tagged `xml:"prefix:local,attr"`: written as prefix:local="value",
\* which a reader splits at the colon.
Attribute(prefix, local, str) ==
    [Prefix |-> prefix, Local |-> local, Value |-> EscapeString(str)]

\* GranteeEncode. The Email field's tag is spelled `xlm:`, which encoding/xml
\* does not read: the field is written under its Go name, Email, and is not
\* omitted when empty.
MarshalGrantee(g) ==
    Element("Grantee",
        <<Attribute("xmlns", "xsi", g.XMLNS), Attribute("xsi", "type", g.XMLXSI)>>,
        <<>>,
        TextElement("Type", g.Type)
            \o OmitEmptyElement("ID", g.ID)
            \o OmitEmptyElement("DisplayName", g.DisplayName)
            \o OmitEmptyElement("URI", g.URI)
            \o TextElement("Email", g.Email))

\* GrantEncode
MarshalGrant(grant) ==
    Element("Grant", <<>>, <<>>,
        <<MarshalGrantee(grant.Grantee)>> \o TextElement("Permission", grant.Permission))

\* Owner (declared elsewhere in the package): its ID and display name.
MarshalOwner(owner) ==
    Element("Owner", <<>>, <<>>,
        TextElement("ID", owner.ID) \o TextElement("DisplayName", owner.DisplayName))

\* xml.Marshal(acle) for an AccessControlPolicyEncode
Marshal(policy) ==
    Element("AccessControlPolicy", <<>>, <<>>,
        <<MarshalOwner(policy.Owner),
          Element("AccessControlList", <<>>, <<>>,
              [i \in 1..Len(policy.AccessControlList.Grants) |->
                  MarshalGrant(policy.AccessControlList.Grants[i])])>>)

\* The child elements of e with the given name, in document order.
ChildrenNamed(e, name) ==
    SelectSeq(e.Children, LAMBDA c : c.Name = name)

\* A string field tagged with an element name: the character data of the
\* last such child, "" when there is none.
StringField(e, name) ==
    LET cs == ChildrenNamed(e, name) IN
    IF cs = <<>> THEN <<>> ELSE UnescapeString(cs[Len(cs)].Text)

\* A string field tagged `xml:"local,attr"`: the value of the last attribute
\* whose local name is `local`, in any namespace.
AttrField(e, local) ==
    LET as == SelectSeq(e.Attr, LAMBDA a : a.Local = local) IN
    IF as = <<>> THEN <<>> ELSE UnescapeString(as[Len(as)].Value)

\* Mutant of UnmarshalGrantee: the Email tag spelled `xml:` on the decoding
\* side only, so that it reads the EmailAddress element.
UnmarshalGrantee_EmailAddress(e) ==
    [XMLNS |-> AttrField(e, "xsi"),
     XMLXSI |-> AttrField(e, "type"),
     Type |-> StringField(e, "Type"),
     ID |-> StringField(e, "ID"),
     DisplayName |-> StringField(e, "DisplayName"),
     URI |-> StringField(e, "URI"),
     Email |-> StringField(e, "EmailAddress")]

\* GranteeDecode. Its Email tag is spelled `xlm:` too, so the field is read
\* from the element named Email.
UnmarshalGrantee(e) ==
    [XMLNS |-> AttrField(e, "xsi"),
     XMLXSI |-> AttrField(e, "type"),
     Type |-> StringField(e, "Type"),
     ID |-> StringField(e, "ID"),
     DisplayName |-> StringField(e, "DisplayName"),
     URI |-> StringField(e, "URI"),
     Email |-> StringField(e, "Email")]

ZeroGrantee ==
    [XMLNS |-> <<>>, XMLXSI |-> <<>>, Type |-> <<>>, ID |-> <<>>,
     DisplayName |-> <<>>, URI |-> <<>>, Email |-> <<>>]

\* GrantDecode
UnmarshalGrant(e) ==
    LET gs == ChildrenNamed(e, "Grantee") IN
    [Grantee |-> IF gs = <<>> THEN ZeroGrantee ELSE UnmarshalGrantee(gs[Len(gs)]),
     Permission |-> StringField(e, "Permission")]

UnmarshalOwner(e) ==
    [ID |-> StringField(e, "ID"), DisplayName |-> StringField(e, "DisplayName")]

\* xmlDecoder(resp.Body, res) for an AccessControlPolicyDecode: an error when
\* the root element is not AccessControlPolicy.
Unmarshal(root) ==
    IF root.Name # "AccessControlPolicy" THEN [err |-> "xml: expected element type <AccessControlPolicy>"]
    ELSE LET os == ChildrenNamed(root, "Owner")
             ls == ChildrenNamed(root, "AccessControlList")
             gs == IF ls = <<>> THEN <<>> ELSE ChildrenNamed(ls[Len(ls)], "Grant")
         IN  [err |-> "",
              Owner |-> IF os = <<>> THEN [ID |-> <<>>, DisplayName |-> <<>>]
                        ELSE UnmarshalOwner(os[Len(os)]),
              AccessControlList |->
                  [Grants |-> [i \in 1..Len(gs) |-> UnmarshalGrant(gs[i])]]]

\* ------------------------------------------------------------------------
\* SpecXml: a document marshalled as PutObjectAcl does and decoded as
\* GetObjectACL does
\* ------------------------------------------------------------------------
GranteeFields == {"XMLNS", "XMLXSI", "Type", "ID", "DisplayName", "URI", "Email"}

\* The string fields of a document of n grants: <<0, f>> is a field of the
\* owner, <<i, f>> a field of the i-th grant.
Positions(n) ==
    ({0} \X {"ID", "DisplayName"}) \cup ((1..n) \X (GranteeFields \cup {"Permission"}))

\* The non-empty strings a field is given: "A<&", whose last two characters
\* are escaped, and "A" followed by the control character U+0001.
InputStrings == {<<65, 60, 38>>, <<65, 1>>}

RECURSIVE SubsetsUpTo(_, _)
SubsetsUpTo(S, k) ==
    IF k = 0 THEN {{}}
    ELSE LET T == SubsetsUpTo(S, k - 1) IN T \cup {t \cup {x} : t \in T, x \in S}

FieldValue(a, pos) == IF pos \in DOMAIN a THEN a[pos] ELSE <<>>

\* The document of n grants whose fields at DOMAIN a hold a's strings and
\* whose other fields are empty.
AccessControlPolicyEncode(n, a) ==
    [Owner |-> [ID |-> FieldValue(a, <<0, "ID">>),
                DisplayName |-> FieldValue(a, <<0, "DisplayName">>)],
     AccessControlList |->
        [Grants |->
            [i \in 1..n |->
                [Grantee |-> [f \in GranteeFields |-> FieldValue(a, <<i, f>>)],
                 Permission |-> FieldValue(a, <<i, "Permission">>)]]]]

InitXml ==
    /\ pc = "idle"
    /\ aCPolicy = None
    /\ cannedACL = None
    /\ grantACL = None
    /\ acle = None
    /\ aclstring = None
    /\ res = None
    /\ call = None
    /\ requests = <<>>
    /\ resp = None
    /\ objInfo = None
    /\ ret = None

\* PutObjectAcl / PutBucketAcl: aclstring, err := xml.Marshal(acle)
MarshalACL ==
    /\ pc = "idle"
    /\ \E n \in 0..MaxXmlGrants :
        \E S \in SubsetsUpTo(Positions(n), MaxFields) :
            \E a \in [S -> InputStrings] :
                /\ acle' = AccessControlPolicyEncode(n, a)
                /\ aclstring' = Marshal(acle')
    /\ pc' = "marshalled"
    /\ UNCHANGED <<aCPolicy, cannedACL, grantACL, res, opVars>>

\* GetObjectACL: xmlDecoder(resp.Body, res), the body being the document
\* that was put
DecodeACL ==
    /\ pc = "marshalled"
    /\ res' = Unmarshal(aclstring)
    /\ pc' = "done"
    /\ UNCHANGED <<pureVars, opVars>>

NextXml == MarshalACL \/ DecodeACL

SpecXml == InitXml /\ [][NextXml]_vars

\* ------------------------------------------------------------------------
\* The collaborators of the handlers
\* ------------------------------------------------------------------------
\* A nil pointer, a nil error, a nil response.
Nil == [nil |-> TRUE]

BucketNames == {"b1", "b2"}
ObjectNames == {"k1", "k2"}

\* http.StatusOK and two other statuses a server answers with.
StatusOK == 200
OtherStatusCodes == {204, 403}

\* A response as executeMethod returns it: its body is open.
Response(status, body) ==
    [StatusCode |-> status, Body |-> body, closed |-> FALSE]

\* The outcomes of executeMethod: an error and no response, or a response
\* with status 200 and one of the given bodies, or with another status.
ExecuteOutcomes(bodies) ==
    {[err |-> [Message |-> "transport error"], resp |-> Nil]}
        \cup {[err |-> Nil, resp |-> Response(StatusOK, b)] : b \in bodies}
        \cup {[err |-> Nil, resp |-> Response(c, [errorDocument |-> TRUE])] :
                c \in OtherStatusCodes}

\* The request executeMethod is given.
ExecuteRequest(method, bucketName, objectName, contentBody) ==
    [via |-> "executeMethod", method |-> method, bucketName |-> bucketName,
     objectName |-> objectName, queryValues |-> "acl", contentBody |-> contentBody]

StatRequest(bucketName, objectName) ==
    [via |-> "StatObject", method |-> "HEAD", bucketName |-> bucketName,
     objectName |-> objectName]

\* closeResponse(resp): drains and closes the body.
closeResponse(r) == [r EXCEPT !.closed = TRUE]

\* httpRespToErrorResponse(resp, bucketName, objectName): the error response
\* of that status for that bucket and object.
httpRespToErrorResponse(r, bucketName, objectName) ==
    [StatusCode |-> r.StatusCode, BucketName |-> bucketName, Key |-> objectName]

\* The response after httpRespToErrorResponse has read it: this code does not
\* decide whether the body is then left open or closed.
AfterErrorResponse(r) == {r, closeResponse(r)}

\* xmlDecoder(resp.Body, res): an error for a body that is no ACL document,
\* otherwise the policy the document decodes to.
xmlDecoder(body) ==
    IF "document" \in DOMAIN body
    THEN [err |-> Nil, res |-> body.document]
    ELSE [err |-> [Message |-> "xml syntax error"], res |-> Nil]

\* io.ReadAll(resp.Body): the bytes read until the end of the body or the
\* first read error, and that error.
RECURSIVE ConcatAll(_)
ConcatAll(chunks) ==
    IF chunks = <<>> THEN "" ELSE chunks[1] \o ConcatAll(Tail(chunks))

ReadAll(body) ==
    [bytes |-> ConcatAll(SubSeq(body.chunks, 1, body.delivered)),
     err |-> IF body.readErr THEN [Message |-> "unexpected EOF"] ELSE Nil]

\* Mutant of ReadBody: a read error is returned to the caller.
ReadBody_ReportsError(body) ==
    IF ReadAll(body).err # Nil
    THEN [value |-> "", err |-> ReadAll(body).err]
    ELSE [value |-> ReadAll(body).bytes, err |-> Nil]

\* aclBytes, _ := io.ReadAll(resp.Body); return string(aclBytes), nil
ReadBody(body) ==
    [value |-> ReadAll(body).bytes, err |-> Nil]

\* objInfo.Metadata.Add(key, value)
HeaderAdd(h, key, value) ==
    IF key \in DOMAIN h
    THEN [h EXCEPT ![key] = Append(@, value)]
    ELSE h @@ (key :> <<value>>)

\* for k, v := range grantACL { objInfo.Metadata[k] = v }
HeaderSetAll(h, m) ==
    [k \in DOMAIN h \cup DOMAIN m |-> IF k \in DOMAIN m THEN m[k] ELSE h[k]]

\* ------------------------------------------------------------------------
\* Inputs of the handlers
\* ------------------------------------------------------------------------
\* The bodies of a 200 answer to GetObjectACL: a malformed one, and the
\* documents of the bounded policies.
AclDocuments ==
    {[malformed |-> TRUE]}
        \cup UNION {{[document |-> AccessControlPolicyDecode(OwnerInput, grants)] :
                        grants \in [1..n -> HeaderGrantInputs]} : n \in 0..MaxOpGrants}

\* The bodies of a 200 answer to the raw getters: up to MaxChunks chunks, of
\* which the reader delivers the first `delivered` before it ends or fails.
ChunkInputs == {"<Acl>", "</Acl>"}

RawBodies ==
    UNION {{b \in [chunks : [1..n -> ChunkInputs], delivered : 0..n, readErr : BOOLEAN] :
                b.delivered < n => b.readErr} : n \in 0..MaxChunks}

EmptyBody == [chunks |-> <<>>, delivered |-> 0, readErr |-> FALSE]

\* What StatObject returns: an error, or the object's information with the
\* metadata of its HEAD response.
StatOutcomes ==
    {[err |-> [Message |-> "stat error"], objInfo |-> Nil]}
        \cup {[err |-> Nil,
               objInfo |-> [Owner |-> [ID |-> "", DisplayName |-> ""],
                            Grant |-> <<>>, Metadata |-> md]] :
                md \in {EmptyMap, ("Content-Type" :> <<"text/plain">>)}}

\* The ACL strings given to the Put...ACLstring handlers.
AclStringInputs == {"", "<AccessControlPolicy/>"}

\* The documents given to PutObjectAcl and PutBucketAcl.
AcleInputs ==
    UNION {{AccessControlPolicyEncode(n, a) :
                a \in UNION {[S -> InputStrings] : S \in SubsetsUpTo(Positions(n), 1)}} :
            n \in 0..1}

\* ------------------------------------------------------------------------
\* The handlers
\* ------------------------------------------------------------------------
Init ==
    /\ pc = "idle"
    /\ aCPolicy = None
    /\ cannedACL = None
    /\ grantACL = None
    /\ acle = None
    /\ aclstring = None
    /\ res = Nil
    /\ call = Nil
    /\ requests = <<>>
    /\ resp = Nil
    /\ objInfo = Nil
    /\ ret = Nil

\* Mutant of MergeACL: no return after X-Amz-Acl is added, so the grant
\* headers are set as well.
MergeACL_NoEarlyReturn(info, policy) ==
    LET merged == [info EXCEPT
                      !.Owner.DisplayName = policy.Owner.DisplayName,
                      !.Owner.ID = policy.Owner.ID,
                      !.Grant = @ \o policy.AccessControlList.Grants]
        labelled == IF getCannedACL(policy) # ""
                    THEN [merged EXCEPT
                             !.Metadata = HeaderAdd(@, "X-Amz-Acl", getCannedACL(policy))]
                    ELSE merged
    IN  [labelled EXCEPT !.Metadata = HeaderSetAll(@, getAmzGrantACL(policy))]

\* The part of GetObjectACL after StatObject has succeeded: the owner and
\* the grants are merged, then either X-Amz-Acl or the grant headers are set.
MergeACL(info, policy) ==
    LET merged == [info EXCEPT
                      !.Owner.DisplayName = policy.Owner.DisplayName,
                      !.Owner.ID = policy.Owner.ID,
                      !.Grant = @ \o policy.AccessControlList.Grants]
    IN  IF getCannedACL(policy) # ""
        THEN [merged EXCEPT !.Metadata = HeaderAdd(@, "X-Amz-Acl", getCannedACL(policy))]
        ELSE [merged EXCEPT !.Metadata = HeaderSetAll(@, getAmzGrantACL(policy))]

GetObjectACL ==
    /\ pc = "idle"
    /\ \E bucketName \in BucketNames, objectName \in ObjectNames,
          ex \in ExecuteOutcomes(AclDocuments) :
        /\ call' = [op |-> "GetObjectACL", bucketName |-> bucketName,
                    objectName |-> objectName]
        /\ IF ex.err # Nil
           THEN /\ requests' = <<ExecuteRequest("GET", bucketName, objectName, Nil)>>
                /\ resp' = Nil
                /\ res' = Nil
                /\ objInfo' = Nil
                /\ ret' = [value |-> Nil, err |-> ex.err]
           ELSE IF ex.resp.StatusCode # StatusOK
           THEN /\ requests' = <<ExecuteRequest("GET", bucketName, objectName, Nil)>>
                /\ resp' = closeResponse(ex.resp)
                /\ res' = Nil
                /\ objInfo' = Nil
                /\ ret' = [value |-> Nil,
                           err |-> httpRespToErrorResponse(ex.resp, bucketName, objectName)]
           ELSE IF xmlDecoder(ex.resp.Body).err # Nil
           THEN /\ requests' = <<ExecuteRequest("GET", bucketName, objectName, Nil)>>
                /\ resp' = closeResponse(ex.resp)
                /\ res' = Nil
                /\ objInfo' = Nil
                /\ ret' = [value |-> Nil, err |-> xmlDecoder(ex.resp.Body).err]
           ELSE \E st \in StatOutcomes :
                /\ requests' = <<ExecuteRequest("GET", bucketName, objectName, Nil),
                                 StatRequest(bucketName, objectName)>>
                /\ resp' = closeResponse(ex.resp)
                /\ res' = xmlDecoder(ex.resp.Body).res
                /\ objInfo' = st.objInfo
                /\ ret' = IF st.err # Nil
                          THEN [value |-> Nil, err |-> st.err]
                          ELSE [value |-> MergeACL(st.objInfo, res'), err |-> Nil]
    /\ pc' = "done"
    /\ UNCHANGED pureVars

GetObjectACLstring ==
    /\ pc = "idle"
    /\ \E bucketName \in BucketNames, objectName \in ObjectNames,
          ex \in ExecuteOutcomes(RawBodies) :
        /\ call' = [op |-> "GetObjectACLstring", bucketName |-> bucketName,
                    objectName |-> objectName]
        /\ requests' = <<ExecuteRequest("GET", bucketName, objectName, Nil)>>
        /\ IF ex.err # Nil
           THEN /\ resp' = Nil
                /\ ret' = [value |-> "", err |-> ex.err]
           ELSE IF ex.resp.StatusCode # StatusOK
           THEN /\ resp' = closeResponse(ex.resp)
                /\ ret' = [value |-> "",
                           err |-> httpRespToErrorResponse(ex.resp, bucketName, objectName)]
           ELSE /\ resp' = closeResponse(ex.resp)
                /\ ret' = ReadBody(ex.resp.Body)
    /\ pc' = "done"
    /\ UNCHANGED <<pureVars, res, objInfo>>

GetBucketACLstring ==
    /\ pc = "idle"
    /\ \E bucketName \in BucketNames, ex \in ExecuteOutcomes(RawBodies) :
        /\ call' = [op |-> "GetBucketACLstring", bucketName |-> bucketName]
        /\ requests' = <<ExecuteRequest("GET", bucketName, "", Nil)>>
        /\ IF ex.err # Nil
           THEN /\ resp' = Nil
                /\ ret' = [value |-> "", err |-> ex.err]
           ELSE IF ex.resp.StatusCode # StatusOK
           THEN /\ resp' = closeResponse(ex.resp)
                /\ ret' = [value |-> "",
                           err |-> httpRespToErrorResponse(ex.resp, bucketName, "")]
           ELSE /\ resp' = closeResponse(ex.resp)
                /\ ret' = ReadBody(ex.resp.Body)
    /\ pc' = "done"
    /\ UNCHANGED <<pureVars, res, objInfo>>

\* Mutant of DoPutObjectACLstring: the error is built as in the bucket
\* handler, without the object name.
DoPutObjectACLstring_NoObjectName(bucketName, objectName, acl) ==
    \E ex \in ExecuteOutcomes({EmptyBody}) :
        /\ requests' = <<ExecuteRequest("PUT", bucketName, objectName, acl)>>
        /\ IF ex.err # Nil
           THEN /\ resp' = Nil
                /\ ret' = [value |-> Nil, err |-> ex.err]
           ELSE IF ex.resp.StatusCode # StatusOK
           THEN /\ resp' \in AfterErrorResponse(ex.resp)
                /\ ret' = [value |-> Nil,
                           err |-> httpRespToErrorResponse(ex.resp, bucketName, "")]
           ELSE /\ resp' = ex.resp
                /\ ret' = [value |-> Nil, err |-> Nil]

\* The body of PutObjectACLstring, which PutObjectAcl runs too.
DoPutObjectACLstring(bucketName, objectName, acl) ==
    \E ex \in ExecuteOutcomes({EmptyBody}) :
        /\ requests' = <<ExecuteRequest("PUT", bucketName, objectName, acl)>>
        /\ IF ex.err # Nil
           THEN /\ resp' = Nil
                /\ ret' = [value |-> Nil, err |-> ex.err]
           ELSE IF ex.resp.StatusCode # StatusOK
           THEN /\ resp' \in AfterErrorResponse(ex.resp)
                /\ ret' = [value |-> Nil,
                           err |-> httpRespToErrorResponse(ex.resp, bucketName, objectName)]
           ELSE /\ resp' = ex.resp
                /\ ret' = [value |-> Nil, err |-> Nil]

\* Mutant of DoPutBucketACLstring: a status other than 200 is answered by
\* sending the request once more.
DoPutBucketACLstring_Retry(bucketName, acl) ==
    \E ex \in ExecuteOutcomes({EmptyBody}), again \in ExecuteOutcomes({EmptyBody}) :
        IF ex.err # Nil
        THEN /\ requests' = <<ExecuteRequest("PUT", bucketName, "", acl)>>
             /\ resp' = Nil
             /\ ret' = [value |-> Nil, err |-> ex.err]
        ELSE IF ex.resp.StatusCode = StatusOK
        THEN /\ requests' = <<ExecuteRequest("PUT", bucketName, "", acl)>>
             /\ resp' = ex.resp
             /\ ret' = [value |-> Nil, err |-> Nil]
        ELSE /\ requests' = <<ExecuteRequest("PUT", bucketName, "", acl),
                              ExecuteRequest("PUT", bucketName, "", acl)>>
             /\ resp' \in (IF again.err # Nil THEN {Nil} ELSE AfterErrorResponse(again.resp))
             /\ ret' = [value |-> Nil,
                        err |-> IF again.err # Nil THEN again.err
                                ELSE IF again.resp.StatusCode # StatusOK
                                THEN httpRespToErrorResponse(again.resp, bucketName, "")
                                ELSE Nil]

\* The body of PutBucketACLstring, which PutBucketAcl runs too.
DoPutBucketACLstring(bucketName, acl) ==
    \E ex \in ExecuteOutcomes({EmptyBody}) :
        /\ requests' = <<ExecuteRequest("PUT", bucketName, "", acl)>>
        /\ IF ex.err # Nil
           THEN /\ resp' = Nil
                /\ ret' = [value |-> Nil, err |-> ex.err]
           ELSE IF ex.resp.StatusCode # StatusOK
           THEN /\ resp' \in AfterErrorResponse(ex.resp)
                /\ ret' = [value |-> Nil,
                           err |-> httpRespToErrorResponse(ex.resp, bucketName, "")]
           ELSE /\ resp' = ex.resp
                /\ ret' = [value |-> Nil, err |-> Nil]

PutObjectACLstring ==
    /\ pc = "idle"
    /\ \E bucketName \in BucketNames, objectName \in ObjectNames,
          acl \in AclStringInputs :
        /\ call' = [op |-> "PutObjectACLstring", bucketName |-> bucketName,
                    objectName |-> objectName]
        /\ DoPutObjectACLstring(bucketName, objectName, acl)
    /\ pc' = "done"
    /\ UNCHANGED <<pureVars, res, objInfo>>

PutBucketACLstring ==
    /\ pc = "idle"
    /\ \E bucketName \in BucketNames, acl \in AclStringInputs :
        /\ call' = [op |-> "PutBucketACLstring", bucketName |-> bucketName]
        /\ DoPutBucketACLstring(bucketName, acl)
    /\ pc' = "done"
    /\ UNCHANGED <<pureVars, res, objInfo>>

\* xml.Marshal returns no error for a structure of strings, so the call
\* always goes on to PutObjectACLstring.
PutObjectAcl ==
    /\ pc = "idle"
    /\ \E bucketName \in BucketNames, objectName \in ObjectNames, doc \in AcleInputs :
        /\ call' = [op |-> "PutObjectAcl", bucketName |-> bucketName,
                    objectName |-> objectName]
        /\ acle' = doc
        /\ aclstring' = Marshal(doc)
        /\ DoPutObjectACLstring(bucketName, objectName, aclstring')
    /\ pc' = "done"
    /\ UNCHANGED <<aCPolicy, cannedACL, grantACL, res, objInfo>>

PutBucketAcl ==
    /\ pc = "idle"
    /\ \E bucketName \in BucketNames, doc \in AcleInputs :
        /\ call' = [op |-> "PutBucketAcl", bucketName |-> bucketName]
        /\ acle' = doc
        /\ aclstring' = Marshal(doc)
        /\ DoPutBucketACLstring(bucketName, aclstring')
    /\ pc' = "done"
    /\ UNCHANGED <<aCPolicy, cannedACL, grantACL, res, objInfo>>

Next ==
    \/ GetObjectACL
    \/ GetObjectACLstring
    \/ GetBucketACLstring
    \/ PutObjectACLstring
    \/ PutBucketACLstring
    \/ PutObjectAcl
    \/ PutBucketAcl

Spec == Init /\ [][Next]_vars

\* ------------------------------------------------------------------------
\* Properties of getCannedACL (SpecCanned)
\* ------------------------------------------------------------------------
Grants == aCPolicy.AccessControlList.Grants

IsAuthenticatedRead(g) ==
    g.Grantee.URI = AuthenticatedUsersURI /\ g.Permission = "READ"

IsAllUsersRead(g) ==
    g.Grantee.URI = AllUsersURI /\ g.Permission = "READ"

IsOwnerRead(g) ==
    g.Permission = "READ" /\ g.Grantee.ID = aCPolicy.Owner.ID

TwoGrants == pc = "done" /\ Len(Grants) = 2

\* C1 as stated: for exactly two grants the three rules are applied in priority
\* order over the whole list: authenticated-read if any grant is AuthenticatedUsers
\* READ, otherwise public-read if any grant is AllUsers READ, otherwise
\* bucket-owner-read if any grant is READ with the owner's ID, otherwise "";
\* so the result does not depend on the positions of the two grants.
C1_RulesInPriorityOrder ==
    TwoGrants =>
        cannedACL =
            IF \E i \in 1..2 : IsAuthenticatedRead(Grants[i]) THEN "authenticated-read"
            ELSE IF \E i \in 1..2 : IsAllUsersRead(Grants[i]) THEN "public-read"
            ELSE IF \E i \in 1..2 : IsOwnerRead(Grants[i]) THEN "bucket-owner-read"
            ELSE ""

\* The label the three rules, in priority order, give one grant; "" if none.
RuleLabel(g) ==
    IF IsAuthenticatedRead(g) THEN "authenticated-read"
    ELSE IF IsAllUsersRead(g) THEN "public-read"
    ELSE IF IsOwnerRead(g) THEN "bucket-owner-read"
    ELSE ""

\* C1 amended: for exactly two grants the three rules are applied in priority
\* order to one grant at a time, in list order, and the first grant that
\* matches a rule decides the label; "" when neither grant matches. The label
\* depends on the positions exactly when the grants match different rules.
C1_FirstMatchingGrantDecides ==
    TwoGrants =>
        /\ cannedACL = IF RuleLabel(Grants[1]) # "" THEN RuleLabel(Grants[1])
                       ELSE RuleLabel(Grants[2])
        /\ (RuleLabel(Grants[1]) = "" \/ RuleLabel(Grants[2]) = ""
                \/ RuleLabel(Grants[1]) = RuleLabel(Grants[2]))
             => cannedACL = getCannedACL(
                    AccessControlPolicyDecode(aCPolicy.Owner, <<Grants[2], Grants[1]>>))

\* An AllUsers READ grant ahead of an AuthenticatedUsers READ grant.
C1_Witness ==
    /\ TwoGrants
    /\ IsAllUsersRead(Grants[1])
    /\ IsAuthenticatedRead(Grants[2])
    /\ cannedACL = "public-read"

\* C2 as stated: a two-grant ACL with an AllUsers READ grant is public-read,
\* whatever the other grant is and wherever it stands.
C2_AllUsersReadIsPublicRead ==
    (TwoGrants /\ \E i \in 1..2 : IsAllUsersRead(Grants[i]))
        => cannedACL = "public-read"

\* C2 amended: a two-grant ACL with an AllUsers READ grant is public-read when
\* that grant is first or the first grant matches none of the three rules; a
\* first grant that is AuthenticatedUsers READ makes it authenticated-read, and
\* a first grant that is READ with the owner's ID makes it bucket-owner-read.
C2_AllUsersReadByFirstGrant ==
    (TwoGrants /\ \E i \in 1..2 : IsAllUsersRead(Grants[i]))
        => cannedACL =
            IF IsAllUsersRead(Grants[1]) THEN "public-read"
            ELSE IF IsAuthenticatedRead(Grants[1]) THEN "authenticated-read"
            ELSE IF IsOwnerRead(Grants[1]) THEN "bucket-owner-read"
            ELSE "public-read"

\* An AllUsers READ grant in second place behind a grant no rule matches.
C2_Witness ==
    /\ TwoGrants
    /\ IsAllUsersRead(Grants[2])
    /\ Grants[1].Permission = "WRITE"
    /\ cannedACL = "public-read"

\* C7: a two-grant ACL with a READ grant of the owner's ID, neither grant
\* carrying the AuthenticatedUsers or AllUsers URI, is bucket-owner-read in
\* either order of the grants.
C7_OwnerReadIsBucketOwnerRead ==
    (/\ TwoGrants
     /\ \E i \in 1..2 : IsOwnerRead(Grants[i])
     /\ \A i \in 1..2 : Grants[i].Grantee.URI \notin {AuthenticatedUsersURI, AllUsersURI})
        => cannedACL = "bucket-owner-read"

\* The owner's READ grant in second place behind another user's grant.
C7_Witness ==
    /\ TwoGrants
    /\ IsOwnerRead(Grants[2])
    /\ ~IsOwnerRead(Grants[1])
    /\ \A i \in 1..2 : Grants[i].Grantee.URI = ""
    /\ cannedACL = "bucket-owner-read"

\* ------------------------------------------------------------------------
\* Properties of getAmzGrantACL (SpecGrant)
\* ------------------------------------------------------------------------
HeaderOfPermission ==
    [p \in Permissions |->
        CASE p = "READ" -> "X-Amz-Grant-Read"
          [] p = "WRITE" -> "X-Amz-Grant-Write"
          [] p = "READ_ACP" -> "X-Amz-Grant-Read-Acp"
          [] p = "WRITE_ACP" -> "X-Amz-Grant-Write-Acp"
          [] p = "FULL_CONTROL" -> "X-Amz-Grant-Full-Control"]

\* The positions of the grants with permission p, and the k-th of them.
GrantsWith(p) == {i \in 1..Len(Grants) : Grants[i].Permission = p}

NthGrantWith(p, k) ==
    CHOOSE i \in GrantsWith(p) : Cardinality({j \in GrantsWith(p) : j <= i}) = k

\* C6: for a grant list over the five permissions that has no canned label,
\* the map holds one "id=<grantee ID>" entry per grant, under the header its
\* permission selects, the entries of a header in the order of their grants,
\* and no header without a grant.
C6_OneEntryPerGrant ==
    (/\ pc = "done"
     /\ \A i \in 1..Len(Grants) : Grants[i].Permission \in Permissions
     /\ cannedACL = "")
        => /\ DOMAIN grantACL =
                {HeaderOfPermission[p] : p \in {q \in Permissions : GrantsWith(q) # {}}}
           /\ \A p \in Permissions :
                GrantsWith(p) # {} =>
                    /\ Len(grantACL[HeaderOfPermission[p]]) = Cardinality(GrantsWith(p))
                    /\ \A k \in 1..Cardinality(GrantsWith(p)) :
                        grantACL[HeaderOfPermission[p]][k]
                            = "id=" \o Grants[NthGrantWith(p, k)].Grantee.ID

\* Two READ grants of different users around a WRITE grant, no canned label.
C6_Witness ==
    /\ pc = "done"
    /\ cannedACL = ""
    /\ Len(Grants) = 3
    /\ Grants[1].Permission = "READ" /\ Grants[1].Grantee.ID = "u"
    /\ Grants[2].Permission = "WRITE"
    /\ Grants[3].Permission = "READ" /\ Grants[3].Grantee.ID = "o"
    /\ grantACL["X-Amz-Grant-Read"] = <<"id=u", "id=o">>
    /\ DOMAIN grantACL = {"X-Amz-Grant-Read", "X-Amz-Grant-Write"}

\* ------------------------------------------------------------------------
\* Properties of the XML round trip (SpecXml)
\* ------------------------------------------------------------------------
SameDocument ==
    /\ res.err = ""
    /\ res.Owner = acle.Owner
    /\ res.AccessControlList.Grants = acle.AccessControlList.Grants

\* The strings of the document acle.
StringsOf(policy) ==
    {policy.Owner.ID, policy.Owner.DisplayName}
        \cup {policy.AccessControlList.Grants[i].Permission :
                i \in 1..Len(policy.AccessControlList.Grants)}
        \cup {policy.AccessControlList.Grants[i].Grantee[f] :
                i \in 1..Len(policy.AccessControlList.Grants), f \in GranteeFields}

OnlyXmlCharacters(policy) ==
    \A str \in StringsOf(policy) : \A i \in 1..Len(str) :
        \/ str[i] \in {9, 10, 13}
        \/ (str[i] >= 32 /\ str[i] <= 55295)
        \/ (str[i] >= 57344 /\ str[i] <= 65533)
        \/ (str[i] >= 65536 /\ str[i] <= 1114111)

\* C8 as stated: marshalling any document and decoding the result yields the
\* same owner and the same grants, grant for grant and in order.
C8_RoundTrip ==
    pc = "done" => SameDocument

\* C8 amended: marshalling a document whose strings hold only characters of
\* the XML character range and decoding the result yields the same owner and
\* the same grants, grant for grant and in order.
C8_RoundTripOfXmlCharacters ==
    (pc = "done" /\ OnlyXmlCharacters(acle)) => SameDocument

\* Two grants that differ: an e-mail address in the first, a type attribute
\* in the second, both with escaped characters.
C8_Witness ==
    /\ pc = "done"
    /\ OnlyXmlCharacters(acle)
    /\ Len(acle.AccessControlList.Grants) = 2
    /\ acle.AccessControlList.Grants[1].Grantee.Email = <<65, 60, 38>>
    /\ acle.AccessControlList.Grants[2].Grantee.XMLXSI = <<65, 60, 38>>
    /\ SameDocument

\* ------------------------------------------------------------------------
\* Properties of the handlers (Spec)
\* ------------------------------------------------------------------------
ObjectOps == {"GetObjectACL", "GetObjectACLstring", "PutObjectACLstring", "PutObjectAcl"}
RawGetters == {"GetObjectACLstring", "GetBucketACLstring"}

Returned == pc = "done"
GotResponse == Returned /\ resp # Nil

\* C3: every call that obtained a response from executeMethod has closed its
\* body when it returns, on the success path and on every failure path.
C3_BodyClosedOnReturn ==
    GotResponse => resp.closed

\* C4: on a status other than 200 every operation returns the error built
\* from the response with the bucket name and the object name it was called
\* with ("" for the bucket operations) and no result; GetObjectACL returns a
\* nil ObjectInfo, calls no StatObject and touches no metadata, the raw
\* getters return "".
C4_NonOKStatusIsErrorResponse ==
    (GotResponse /\ resp.StatusCode # 200) =>
        /\ ret.err = [StatusCode |-> resp.StatusCode,
                      BucketName |-> call.bucketName,
                      Key |-> IF call.op \in ObjectOps THEN call.objectName ELSE ""]
        /\ IF call.op \in RawGetters THEN ret.value = "" ELSE ret.value = Nil
        /\ \A i \in 1..Len(requests) : requests[i].via # "StatObject"
        /\ objInfo = Nil

\* A 403 answer to PutObjectAcl for object k2 of bucket b1.
C4_Witness ==
    /\ GotResponse
    /\ call.op = "PutObjectAcl"
    /\ resp.StatusCode = 403
    /\ ret.err = [StatusCode |-> 403, BucketName |-> "b1", Key |-> "k2"]

\* C5 as stated: every call performs exactly one request, executeMethod and
\* StatObject both counted.
C5_ExactlyOneRequest ==
    Returned => Len(requests) = 1

\* C5 amended: every call sends exactly one request through executeMethod,
\* first and never repeated; GetObjectACL sends one more, through StatObject,
\* exactly when the answer has status 200 and its body decodes; every other
\* call sends no second request.
C5_OneExecuteThenAtMostOneStat ==
    Returned =>
        /\ Len(requests) >= 1
        /\ requests[1].via = "executeMethod"
        /\ \A i \in 2..Len(requests) : requests[i].via = "StatObject"
        /\ Len(requests) =
             IF /\ call.op = "GetObjectACL"
                /\ resp # Nil
                /\ resp.StatusCode = 200
                /\ "document" \in DOMAIN resp.Body
             THEN 2 ELSE 1

\* A successful GetObjectACL: the ACL request, then StatObject.
C5_Witness ==
    /\ Returned
    /\ call.op = "GetObjectACL"
    /\ ret.err = Nil
    /\ Len(requests) = 2
    /\ requests[2].via = "StatObject"

HeaderValue(h, k) == IF k \in DOMAIN h THEN h[k] ELSE <<>>

\* The metadata h1 is h0 but for the keys in K.
SameBut(h1, h0, K) ==
    /\ DOMAIN h1 \ K = DOMAIN h0 \ K
    /\ \A k \in DOMAIN h0 \ K : h1[k] = h0[k]

GetObjectACLSucceeded ==
    Returned /\ call.op = "GetObjectACL" /\ ret.err = Nil

\* C9: a successful GetObjectACL returns StatObject's information with the
\* owner of the decoded policy, the decoded grants appended, and either the
\* canned label added under X-Amz-Acl and no other header touched, or, when
\* there is no label, every header of getAmzGrantACL set to its list and no
\* X-Amz-Acl value added.
C9_OneKindOfAclHeader ==
    GetObjectACLSucceeded =>
        /\ ret.value.Owner.ID = res.Owner.ID
        /\ ret.value.Owner.DisplayName = res.Owner.DisplayName
        /\ ret.value.Grant = objInfo.Grant \o res.AccessControlList.Grants
        /\ IF getCannedACL(res) # ""
           THEN /\ ret.value.Metadata["X-Amz-Acl"]
                     = HeaderValue(objInfo.Metadata, "X-Amz-Acl") \o <<getCannedACL(res)>>
                /\ SameBut(ret.value.Metadata, objInfo.Metadata, {"X-Amz-Acl"})
           ELSE /\ \A k \in DOMAIN getAmzGrantACL(res) :
                     ret.value.Metadata[k] = getAmzGrantACL(res)[k]
                /\ SameBut(ret.value.Metadata, objInfo.Metadata,
                           DOMAIN getAmzGrantACL(res))

\* A labelled policy (owner READ and another grant) merged into metadata
\* that holds a Content-Type.
C9_Witness ==
    /\ GetObjectACLSucceeded
    /\ getCannedACL(res) = "bucket-owner-read"
    /\ Len(res.AccessControlList.Grants) = 2
    /\ DOMAIN ret.value.Metadata = {"Content-Type", "X-Amz-Acl"}
    /\ ret.value.Metadata["X-Amz-Acl"] = <<"bucket-owner-read">>

\* C10: a raw getter whose request was answered with status 200 returns a nil
\* error and the bytes read before the body ended or failed.
C10_ReadErrorNotReported ==
    (GotResponse /\ call.op \in RawGetters /\ resp.StatusCode = 200) =>
        /\ ret.err = Nil
        /\ ret.value = ConcatAll(SubSeq(resp.Body.chunks, 1, resp.Body.delivered))

\* The body fails after the first of two chunks; the call returns that chunk
\* and no error.
C10_Witness ==
    /\ GotResponse
    /\ call.op = "GetBucketACLstring"
    /\ resp.StatusCode = 200
    /\ resp.Body.readErr
    /\ Len(resp.Body.chunks) = 2
    /\ resp.Body.delivered = 1
    /\ ret = [value |-> "<Acl>", err |-> Nil]

====
